---- MODULE Spec2Model ----
(***************************************************************************)
(* The navigation controller of the blog's page header: the hamburger      *)
(* toggle (initialiseHamburger) and the dropdown group (initialiseDropdown)*)
(* of the page script, run on a document by the browser's event loop.      *)
(*                                                                         *)
(* An element is its position in document order.  An id or an attribute    *)
(* value is a sequence of string tokens ("problems-dropdown-items" is      *)
(* <<"problems-dropdown-", "items">>), cut so that the word "items" is     *)
(* always a token of its own.  The reference null is 0.                    *)
(***************************************************************************)
EXTENDS Integers, Sequences, FiniteSets, TLC

VARIABLES doc, classList, hamburgerButton, allDropdownItems, dropdownIcons,
          listeners, script, queue, frames, uncaught, log, serial, lookups,
          trail

(* doc               the document: per element its id, its class attribute  *)
(*                   as written in the markup, and its aria-controls       *)
(* classList         per element, the class tokens it carries now          *)
(* hamburgerButton   the global of line 2                                  *)
(* allDropdownItems  the NodeList of line 14                               *)
(* dropdownIcons     the NodeList of line 15                               *)
(* listeners         per element, the click listener bound to it           *)
(* script            the page script: the line it has reached, the local    *)
(*                   dropdownButtons of line 13, the forEach index of line *)
(*                   16, and the elements addEventListener was called on   *)
(* queue             the clicks waiting on the event queue                 *)
(* frames            the call stack: per running handler, the button       *)
(*                   clicked, the line reached and the locals              *)
(* uncaught          the uncaught TypeErrors so far, as (handler, line)    *)
(* log               history: the last two clicks taken from the queue     *)
(* serial            history: the class lists that handling every click    *)
(*                   made so far alone and in order leaves                 *)
(* lookups           history: how often "#site-nav-items" was resolved by  *)
(*                   the page script (load) and by the handler of the      *)
(*                   click taken last (click)                              *)
(* trail             history: the dropdown button clicked last, and        *)
(*                   whether the clicks on it since the last click on      *)
(*                   another dropdown button are odd in number             *)
vars == <<doc, classList, hamburgerButton, allDropdownItems, dropdownIcons,
          listeners, script, queue, frames, uncaught, log, serial, lookups, trail>>

(* The page: what the script set up at load and never writes again.        *)
page == <<doc, hamburgerButton, allDropdownItems, dropdownIcons, listeners,
          script>>

\* ------------------------------------------------------------------ bounds

\* Dropdown items (button, icon, panel) in the document.
NItems == 3

\* Clicks that may wait on the event queue.
MaxQueue == 2

\* Dropdown items in the documents the page script is loaded on (LoadSpec).
LoadItems == 2

\* Dropdown items in the document termination is checked on (FairSpec).
FairItems == 2

\* Dropdown items in the document loaded with any of them open (AnySpec).
AnyItems == 2

\* ---------------------------------------------------------------- document

NULL == 0

ItemNames == <<"problems-dropdown-", "digressions-dropdown-", "about-dropdown-",
               "links-dropdown-", "more-dropdown-">>

HamburgerButtonId == <<"hamburger-button">>
SiteNavItemsId == <<"site-nav-", "items">>

HeaderMarkup ==
    << [id |-> HamburgerButtonId, class |-> {"hamburger"},
        ariaControls |-> SiteNavItemsId],
       [id |-> SiteNavItemsId, class |-> {"site-nav__items"},
        ariaControls |-> <<>>] >>

(* One dropdown item: its button, its expand icon and its panel.           *)
ItemMarkup(k) ==
    << [id |-> <<ItemNames[k], "button">>, class |-> {"dropdown__button"},
        ariaControls |-> <<ItemNames[k], "items">>],
       [id |-> <<ItemNames[k], "expand">>, class |-> {"dropdown__expand"},
        ariaControls |-> <<>>],
       [id |-> <<ItemNames[k], "items">>, class |-> {"dropdown__items"},
        ariaControls |-> <<>>] >>

RECURSIVE ItemsMarkup(_)
ItemsMarkup(n) == IF n = 0 THEN <<>> ELSE ItemsMarkup(n - 1) \o ItemMarkup(n)

(* The markup of the header with n dropdown items, every item closed.      *)
Markup(n) == HeaderMarkup \o ItemsMarkup(n)

Elements(d) == 1..Len(d)

\* ------------------------------------------------------------- DOM methods

(* document.querySelector("#id"): the first element with that id, or null. *)
querySelector(d, id) ==
    LET hits == {e \in Elements(d) : d[e].id = id}
    IN  IF hits = {} THEN NULL
        ELSE CHOOSE e \in hits : \A f \in hits : e <= f

RECURSIVE SelectFrom(_, _, _, _)
SelectFrom(d, cl, c, e) ==
    IF e > Len(d) THEN <<>>
    ELSE (IF c \in cl[e] THEN <<e>> ELSE <<>>) \o SelectFrom(d, cl, c, e + 1)

(* document.querySelectorAll(".c"): the elements of class c, in document   *)
(* order, as a static list.                                                *)
querySelectorAll(d, cl, c) == SelectFrom(d, cl, c, 1)

(* element.classList.contains(t), .toggle(t), .remove(t)                   *)
contains(cl, e, t) == t \in cl[e]

toggleAdds(cl, e, t) == [cl EXCEPT ![e] = @ \cup {t}]

toggle(cl, e, t) ==
    [cl EXCEPT ![e] = IF t \in @ THEN @ \ {t} ELSE @ \cup {t}]

removeAll(cl, e, t) == [cl EXCEPT ![e] = {}]

remove(cl, e, t) == [cl EXCEPT ![e] = @ \ {t}]

(* element.getAttribute("aria-controls")                                   *)
getAttribute(d, e) == d[e].ariaControls

RECURSIVE ReplaceFirst(_, _, _)
ReplaceFirst(s, from, to) ==
    IF s = <<>> THEN <<>>
    ELSE IF Head(s) = from THEN <<to>> \o Tail(s)
    ELSE <<Head(s)>> \o ReplaceFirst(Tail(s), from, to)

RECURSIVE ReplaceEvery(_, _, _)
ReplaceEvery(s, from, to) ==
    IF s = <<>> THEN <<>>
    ELSE <<IF Head(s) = from THEN to ELSE Head(s)>>
             \o ReplaceEvery(Tail(s), from, to)

(* String.prototype.replace(from, to) with a string pattern: the first     *)
(* occurrence only.                                                        *)
replace(s, from, to) == ReplaceFirst(s, from, to)

\* ---------------------------------------------------------------- page load

(* initialiseHamburger(): the global hamburgerButton.                      *)
initialiseHamburger(d) == querySelector(d, HamburgerButtonId)

(* The click listener bound to each element by the two initialise          *)
(* functions.                                                              *)
boundListeners(d, cl) ==
    [e \in Elements(d) |->
        IF e = initialiseHamburger(d) THEN "hamburger"
        ELSE IF "dropdown__button" \in cl[e] THEN "dropdown"
        ELSE "none"]

(* The page script after both initialise functions have returned.         *)
scriptDone(d, cl) ==
    LET dropdownButtons == querySelectorAll(d, cl, "dropdown__button")
    IN  [pc |-> "done", dropdownButtons |-> dropdownButtons,
         idx |-> Len(dropdownButtons) + 1,
         binds |-> <<initialiseHamburger(d)>> \o dropdownButtons]

(* No dropdown button has been clicked yet.                               *)
NoTrail == [last |-> NULL, odd |-> FALSE]

NoLocals == [controls |-> <<>>, siteNavItems |-> NULL, dropdownItems |-> NULL,
             dropdownIcon |-> NULL, idx |-> 0]

Init ==
    /\ doc = Markup(NItems)
    /\ classList = [e \in Elements(doc) |-> doc[e].class]
    /\ hamburgerButton = initialiseHamburger(doc)
    /\ allDropdownItems = querySelectorAll(doc, classList, "dropdown__items")
    /\ dropdownIcons = querySelectorAll(doc, classList, "dropdown__expand")
    /\ listeners = boundListeners(doc, classList)
    /\ script = scriptDone(doc, classList)
    /\ queue = <<>>
    /\ frames = <<>>
    /\ uncaught = {}
    /\ log = <<>>
    /\ serial = classList
    /\ lookups = [load |-> 0, click |-> 0]
    /\ trail = NoTrail

\* ------------------------------------------------------- running a handler

(* Frame i goes on to line pc with locals v.                               *)
Goto(i, pc, v) == frames' = [frames EXCEPT ![i].pc = pc, ![i].v = v]

(* Frame i leaves the call stack.                                          *)
Pop(i) == frames' = SubSeq(frames, 1, i - 1) \o SubSeq(frames, i + 1, Len(frames))

(* The handler ends normally.                                              *)
Return(i) == Pop(i) /\ UNCHANGED uncaught

(* A property of null is read: a TypeError nobody catches ends the handler *)
(* at this line.                                                           *)
Throw(i) ==
    /\ Pop(i)
    /\ uncaught' = uncaught \cup {[fn |-> frames[i].fn, line |-> frames[i].pc]}

At(i, fn, pc) ==
    /\ i \in 1..Len(frames)
    /\ frames[i].fn = fn
    /\ frames[i].pc = pc

\* ------------------------------------------- the hamburger's click handler

HamburgerL4Cached(i) ==
    /\ At(i, "hamburger", "L4")
    /\ Goto(i, "L5", [frames[i].v EXCEPT
                        !.siteNavItems = querySelector(doc, SiteNavItemsId)])
    /\ UNCHANGED <<page, classList, queue, uncaught, log, serial, lookups, trail>>

(* const siteNavItems = document.querySelector("#site-nav-items");         *)
HamburgerL4(i) ==
    /\ At(i, "hamburger", "L4")
    /\ Goto(i, "L5", [frames[i].v EXCEPT
                        !.siteNavItems = querySelector(doc, SiteNavItemsId)])
    /\ lookups' = [lookups EXCEPT !.click = @ + 1]
    /\ UNCHANGED <<page, classList, queue, uncaught, log, serial, trail>>

HamburgerL5ClosesDropdowns(i) ==
    /\ At(i, "hamburger", "L5")
    /\ classList' = [e \in DOMAIN classList |->
                        IF e = frames[i].v.siteNavItems
                        THEN toggle(classList, e, "site-nav__items--open")[e]
                        ELSE classList[e] \ {"dropdown__items--open",
                                             "dropdown__expand--open"}]
    /\ Goto(i, "L6", frames[i].v)
    /\ UNCHANGED <<page, queue, uncaught, log, serial, lookups, trail>>

HamburgerL5Guarded(i) ==
    /\ At(i, "hamburger", "L5")
    /\ classList' = IF frames[i].v.siteNavItems = NULL THEN classList
                    ELSE toggle(classList, frames[i].v.siteNavItems,
                                "site-nav__items--open")
    /\ Goto(i, "L6", frames[i].v)
    /\ UNCHANGED <<page, queue, uncaught, log, serial, lookups, trail>>

(* siteNavItems.classList.toggle("site-nav__items--open");                 *)
HamburgerL5(i) ==
    /\ At(i, "hamburger", "L5")
    /\ IF frames[i].v.siteNavItems = NULL
       THEN Throw(i) /\ UNCHANGED classList
       ELSE /\ classList' = toggle(classList, frames[i].v.siteNavItems,
                                   "site-nav__items--open")
            /\ Goto(i, "L6", frames[i].v)
            /\ UNCHANGED uncaught
    /\ UNCHANGED <<page, queue, log, serial, lookups, trail>>

HamburgerL6NoToggle(i) ==
    /\ At(i, "hamburger", "L6")
    /\ Return(i)
    /\ UNCHANGED <<page, classList, queue, log, serial, lookups, trail>>

(* hamburgerButton.classList.toggle("hamburger--open")                     *)
HamburgerL6(i) ==
    /\ At(i, "hamburger", "L6")
    /\ IF hamburgerButton = NULL
       THEN Throw(i) /\ UNCHANGED classList
       ELSE /\ classList' = toggle(classList, hamburgerButton, "hamburger--open")
            /\ Return(i)
    /\ UNCHANGED <<page, queue, log, serial, lookups, trail>>

\* --------------------------------------------- a dropdown's click handler

(* const controls = dropdownButton.getAttribute("aria-controls");          *)
DropdownL18(i) ==
    /\ At(i, "dropdown", "L18")
    /\ Goto(i, "L19", [frames[i].v EXCEPT
                         !.controls = getAttribute(doc, frames[i].button)])
    /\ UNCHANGED <<page, classList, queue, uncaught, log, serial, lookups, trail>>

DropdownL19ResolvesBoth(i) ==
    /\ At(i, "dropdown", "L19")
    /\ IF querySelector(doc, replace(frames[i].v.controls, "items", "expand"))
            = NULL
       THEN Throw(i)
       ELSE /\ Goto(i, "L20", [frames[i].v EXCEPT
                   !.dropdownItems = querySelector(doc, frames[i].v.controls),
                   !.idx = 1])
            /\ UNCHANGED uncaught
    /\ UNCHANGED <<page, classList, queue, log, serial, lookups, trail>>

(* const dropdownItems = document.querySelector(`#${controls}`);           *)
DropdownL19(i) ==
    /\ At(i, "dropdown", "L19")
    /\ Goto(i, "L20", [frames[i].v EXCEPT
                         !.dropdownItems = querySelector(doc, frames[i].v.controls),
                         !.idx = 1])
    /\ UNCHANGED <<page, classList, queue, uncaught, log, serial, lookups, trail>>

(* The test of lines 21 and 29: another element than the target, and open. *)
IsAnyOpen(cl, el, target, t) == contains(cl, el, t)

IsNever(cl, el, target, t) == FALSE

IsOtherOpen(cl, el, target, t) == el # target /\ contains(cl, el, t)

ToggleIfOther(cl, list, idx, target, t) ==
    IF list[idx] # target THEN toggle(cl, list[idx], t) ELSE cl

(* One turn of a forEach over list: the element at idx loses token t when  *)
(* it is another element than the target and carries t.                    *)
CloseIfOther(cl, list, idx, target, t) ==
    IF IsOtherOpen(cl, list[idx], target, t)
    THEN remove(cl, list[idx], t)
    ELSE cl

DropdownL20TogglesFirst(i) ==
    /\ At(i, "dropdown", "L20")
    /\ IF frames[i].v.idx > Len(allDropdownItems)
       THEN Goto(i, "L27", frames[i].v) /\ UNCHANGED classList
       ELSE /\ classList' = CloseIfOther(
                                IF frames[i].v.idx = 1
                                THEN toggle(classList, frames[i].v.dropdownItems,
                                            "dropdown__items--open")
                                ELSE classList,
                                allDropdownItems, frames[i].v.idx,
                                frames[i].v.dropdownItems,
                                "dropdown__items--open")
            /\ Goto(i, "L20", [frames[i].v EXCEPT !.idx = @ + 1])
    /\ UNCHANGED <<page, queue, uncaught, log, serial, lookups, trail>>

DropdownL20Restarts(i) ==
    /\ At(i, "dropdown", "L20")
    /\ IF frames[i].v.idx > Len(allDropdownItems)
       THEN Goto(i, "L20", [frames[i].v EXCEPT !.idx = 1])
            /\ UNCHANGED classList
       ELSE /\ classList' = CloseIfOther(classList, allDropdownItems,
                                         frames[i].v.idx,
                                         frames[i].v.dropdownItems,
                                         "dropdown__items--open")
            /\ Goto(i, "L20", [frames[i].v EXCEPT !.idx = @ + 1])
    /\ UNCHANGED <<page, queue, uncaught, log, serial, lookups, trail>>

(* allDropdownItems.forEach(_dropdownItems => { if (...) remove(...) });   *)
DropdownL20(i) ==
    /\ At(i, "dropdown", "L20")
    /\ IF frames[i].v.idx > Len(allDropdownItems)
       THEN Goto(i, "L25", frames[i].v) /\ UNCHANGED classList
       ELSE /\ classList' = CloseIfOther(classList, allDropdownItems,
                                         frames[i].v.idx,
                                         frames[i].v.dropdownItems,
                                         "dropdown__items--open")
            /\ Goto(i, "L20", [frames[i].v EXCEPT !.idx = @ + 1])
    /\ UNCHANGED <<page, queue, uncaught, log, serial, lookups, trail>>

DropdownL25Guarded(i) ==
    /\ At(i, "dropdown", "L25")
    /\ classList' = IF frames[i].v.dropdownItems = NULL THEN classList
                    ELSE toggle(classList, frames[i].v.dropdownItems,
                                "dropdown__items--open")
    /\ Goto(i, "L27", frames[i].v)
    /\ UNCHANGED <<page, queue, uncaught, log, serial, lookups, trail>>

(* dropdownItems.classList.toggle("dropdown__items--open");                *)
DropdownL25(i) ==
    /\ At(i, "dropdown", "L25")
    /\ IF frames[i].v.dropdownItems = NULL
       THEN Throw(i) /\ UNCHANGED classList
       ELSE /\ classList' = toggle(classList, frames[i].v.dropdownItems,
                                   "dropdown__items--open")
            /\ Goto(i, "L27", frames[i].v)
            /\ UNCHANGED uncaught
    /\ UNCHANGED <<page, queue, log, serial, lookups, trail>>

(* const dropdownIcon =                                                    *)
(*     document.querySelector(`#${controls.replace("items", "expand")}`);  *)
DropdownL27(i) ==
    /\ At(i, "dropdown", "L27")
    /\ Goto(i, "L28", [frames[i].v EXCEPT
                         !.dropdownIcon =
                             querySelector(doc, replace(frames[i].v.controls,
                                                        "items", "expand")),
                         !.idx = 1])
    /\ UNCHANGED <<page, classList, queue, uncaught, log, serial, lookups, trail>>

(* dropdownIcons.forEach(_dropdownIcon => { if (...) remove(...) });       *)
DropdownL28(i) ==
    /\ At(i, "dropdown", "L28")
    /\ IF frames[i].v.idx > Len(dropdownIcons)
       THEN Goto(i, "L33", frames[i].v) /\ UNCHANGED classList
       ELSE /\ classList' = CloseIfOther(classList, dropdownIcons,
                                         frames[i].v.idx,
                                         frames[i].v.dropdownIcon,
                                         "dropdown__expand--open")
            /\ Goto(i, "L28", [frames[i].v EXCEPT !.idx = @ + 1])
    /\ UNCHANGED <<page, queue, uncaught, log, serial, lookups, trail>>

DropdownL33NoToggle(i) ==
    /\ At(i, "dropdown", "L33")
    /\ Return(i)
    /\ UNCHANGED <<page, classList, queue, log, serial, lookups, trail>>

(* dropdownIcon.classList.toggle("dropdown__expand--open");                *)
DropdownL33(i) ==
    /\ At(i, "dropdown", "L33")
    /\ IF frames[i].v.dropdownIcon = NULL
       THEN Throw(i) /\ UNCHANGED classList
       ELSE /\ classList' = toggle(classList, frames[i].v.dropdownIcon,
                                   "dropdown__expand--open")
            /\ Return(i)
    /\ UNCHANGED <<page, queue, log, serial, lookups, trail>>

\* ------------------------------------------- a handler, from start to end

RECURSIVE forEach(_, _, _, _, _)
forEach(cl, list, idx, target, t) ==
    IF idx > Len(list) THEN cl
    ELSE forEach(CloseIfOther(cl, list, idx, target, t), list, idx + 1, target, t)

(* Lines 4 to 6 run as one: the class lists the hamburger's handler leaves.*)
hamburgerHandler(cl) ==
    LET siteNavItems == querySelector(doc, SiteNavItemsId)
    IN  IF siteNavItems = NULL THEN cl
        ELSE LET cl5 == toggle(cl, siteNavItems, "site-nav__items--open")
             IN  IF hamburgerButton = NULL THEN cl5
                 ELSE toggle(cl5, hamburgerButton, "hamburger--open")

(* Lines 18 to 33 run as one: the class lists the handler of dropdown      *)
(* button b leaves.                                                        *)
dropdownHandler(cl, b) ==
    LET controls == getAttribute(doc, b)
        dropdownItems == querySelector(doc, controls)
        cl24 == forEach(cl, allDropdownItems, 1, dropdownItems,
                        "dropdown__items--open")
        dropdownIcon == querySelector(doc, replace(controls, "items", "expand"))
    IN  IF dropdownItems = NULL THEN cl24
        ELSE LET cl25 == toggle(cl24, dropdownItems, "dropdown__items--open")
                 cl32 == forEach(cl25, dropdownIcons, 1, dropdownIcon,
                                 "dropdown__expand--open")
             IN  IF dropdownIcon = NULL THEN cl32
                 ELSE toggle(cl32, dropdownIcon, "dropdown__expand--open")

clickHandler(cl, e) ==
    IF listeners[e] = "hamburger" THEN hamburgerHandler(cl)
    ELSE IF listeners[e] = "dropdown" THEN dropdownHandler(cl, e)
    ELSE cl

\* --------------------------------------------------------------- event loop

(* The user clicks an element that has a click listener: the click waits   *)
(* on the event queue.  serial is the document the clicks made so far      *)
(* leave when each is handled alone, in the order they were made.          *)
Click(e) ==
    /\ listeners[e] # "none"
    /\ Len(queue) < MaxQueue
    /\ queue' = Append(queue, e)
    /\ serial' = clickHandler(serial, e)
    /\ UNCHANGED <<page, classList, frames, uncaught, log, lookups, trail>>

(* The handlers hold no await, timer or callback: a handler's frame stays  *)
(* on the call stack from its first statement to its last, and the event   *)
(* loop takes the next click only when the call stack is empty.            *)
CanDispatchAnytime == TRUE

CanDispatch == frames = <<>>

FirstLine(fn) == IF fn = "hamburger" THEN "L4" ELSE "L18"

(* History: the last two clicks dispatched, each with the class lists it   *)
(* found.                                                                  *)
Remember(lg, e, cl) ==
    LET all == Append(lg, [ev |-> e, before |-> cl])
    IN  IF Len(all) > 2 THEN Tail(all) ELSE all

(* History: the run of clicks on one dropdown button that the click taken *)
(* from the queue ends.  Hamburger clicks are not part of it.              *)
Trail(t, e, fn) ==
    IF fn # "dropdown" THEN t
    ELSE [last |-> e, odd |-> IF t.last = e THEN ~t.odd ELSE TRUE]

(* The page script is itself on the call stack until it ends.              *)
ScriptEnded == script.pc \in {"done", "aborted"}

Dispatch ==
    /\ CanDispatch
    /\ ScriptEnded
    /\ queue # <<>>
    /\ queue' = Tail(queue)
    /\ frames' = Append(frames, [fn |-> listeners[Head(queue)],
                                 button |-> Head(queue),
                                 pc |-> FirstLine(listeners[Head(queue)]),
                                 v |-> NoLocals])
    /\ log' = Remember(log, Head(queue), classList)
    /\ lookups' = [lookups EXCEPT !.click = 0]
    /\ trail' = Trail(trail, Head(queue), listeners[Head(queue)])
    /\ UNCHANGED <<page, classList, uncaught, serial>>

\* ------------------------------------------------------------ specification

Next ==
    \/ \E e \in Elements(doc) : Click(e)
    \/ Dispatch
    \/ \E i \in 1..Len(frames) : HamburgerL4(i)
    \/ \E i \in 1..Len(frames) : HamburgerL5(i)
    \/ \E i \in 1..Len(frames) : HamburgerL6(i)
    \/ \E i \in 1..Len(frames) : DropdownL18(i)
    \/ \E i \in 1..Len(frames) : DropdownL19(i)
    \/ \E i \in 1..Len(frames) : DropdownL20(i)
    \/ \E i \in 1..Len(frames) : DropdownL25(i)
    \/ \E i \in 1..Len(frames) : DropdownL27(i)
    \/ \E i \in 1..Len(frames) : DropdownL28(i)
    \/ \E i \in 1..Len(frames) : DropdownL33(i)

Spec == Init /\ [][Next]_vars

\* ------------------------------------------------------- loading the page

(* Document d without the element of that id.                              *)
Without(d, id) == SelectSeq(d, LAMBDA el : el.id # id)

(* The documents the page script is loaded on: the markup as the script    *)
(* expects it, and the same with the hamburger button, the nav panel, the  *)
(* first item's panel or the first item's icon missing.                    *)
Documents ==
    LET d == Markup(LoadItems)
    IN  { d,
          Without(d, HamburgerButtonId),
          Without(d, SiteNavItemsId),
          Without(d, <<ItemNames[1], "items">>),
          Without(d, <<ItemNames[1], "expand">>) }

InitLoad ==
    /\ doc \in Documents
    /\ classList = [e \in Elements(doc) |-> doc[e].class]
    /\ hamburgerButton = NULL
    /\ allDropdownItems = <<>>
    /\ dropdownIcons = <<>>
    /\ listeners = [e \in Elements(doc) |-> "none"]
    /\ script = [pc |-> "L2", dropdownButtons |-> <<>>, idx |-> 0, binds |-> <<>>]
    /\ queue = <<>>
    /\ frames = <<>>
    /\ uncaught = {}
    /\ log = <<>>
    /\ serial = classList
    /\ lookups = [load |-> 0, click |-> 0]
    /\ trail = NoTrail

handlers == <<queue, frames, log, serial, lookups, trail>>

(* hamburgerButton = document.querySelector("#hamburger-button");          *)
ScriptL2 ==
    /\ script.pc = "L2"
    /\ hamburgerButton' = querySelector(doc, HamburgerButtonId)
    /\ script' = [script EXCEPT !.pc = "L3"]
    /\ UNCHANGED <<doc, classList, allDropdownItems, dropdownIcons, listeners,
                   uncaught, handlers>>

ScriptL3BindsNull ==
    /\ script.pc = "L3"
    /\ script' = [script EXCEPT !.pc = "L13"]
    /\ UNCHANGED <<doc, classList, hamburgerButton, allDropdownItems,
                   dropdownIcons, listeners, uncaught, handlers>>

(* hamburgerButton.addEventListener("click", (e) => { ... });              *)
(* A TypeError here is thrown out of line 10 and ends the whole script.    *)
ScriptL3 ==
    /\ script.pc = "L3"
    /\ IF hamburgerButton = NULL
       THEN /\ uncaught' = uncaught \cup {[fn |-> "initialiseHamburger",
                                           line |-> "L3"]}
            /\ script' = [script EXCEPT !.pc = "aborted"]
            /\ UNCHANGED listeners
       ELSE /\ listeners' = [listeners EXCEPT ![hamburgerButton] = "hamburger"]
            /\ script' = [script EXCEPT !.pc = "L13",
                                        !.binds = Append(@, hamburgerButton)]
            /\ UNCHANGED uncaught
    /\ UNCHANGED <<doc, classList, hamburgerButton, allDropdownItems,
                   dropdownIcons, handlers>>

(* const dropdownButtons = document.querySelectorAll(".dropdown__button"); *)
ScriptL13 ==
    /\ script.pc = "L13"
    /\ script' = [script EXCEPT
                    !.pc = "L14",
                    !.dropdownButtons =
                        querySelectorAll(doc, classList, "dropdown__button")]
    /\ UNCHANGED <<doc, classList, hamburgerButton, allDropdownItems,
                   dropdownIcons, listeners, uncaught, handlers>>

(* const allDropdownItems = document.querySelectorAll(".dropdown__items"); *)
ScriptL14 ==
    /\ script.pc = "L14"
    /\ allDropdownItems' = querySelectorAll(doc, classList, "dropdown__items")
    /\ script' = [script EXCEPT !.pc = "L15"]
    /\ UNCHANGED <<doc, classList, hamburgerButton, dropdownIcons, listeners,
                   uncaught, handlers>>

(* const dropdownIcons = document.querySelectorAll(".dropdown__expand");   *)
ScriptL15 ==
    /\ script.pc = "L15"
    /\ dropdownIcons' = querySelectorAll(doc, classList, "dropdown__expand")
    /\ script' = [script EXCEPT !.pc = "L16", !.idx = 1]
    /\ UNCHANGED <<doc, classList, hamburgerButton, allDropdownItems, listeners,
                   uncaught, handlers>>

ScriptL16FirstOnly ==
    /\ script.pc = "L16"
    /\ IF script.idx > 1 \/ script.dropdownButtons = <<>>
       THEN script' = [script EXCEPT !.pc = "done"] /\ UNCHANGED listeners
       ELSE /\ listeners' = [listeners EXCEPT
                               ![script.dropdownButtons[1]] = "dropdown"]
            /\ script' = [script EXCEPT
                            !.idx = @ + 1,
                            !.binds = Append(@, script.dropdownButtons[1])]
    /\ UNCHANGED <<doc, classList, hamburgerButton, allDropdownItems,
                   dropdownIcons, uncaught, handlers>>

(* dropdownButtons.forEach(dropdownButton => {                             *)
(*     dropdownButton.addEventListener("click", () => { ... }); });        *)
ScriptL16 ==
    /\ script.pc = "L16"
    /\ IF script.idx > Len(script.dropdownButtons)
       THEN script' = [script EXCEPT !.pc = "done"] /\ UNCHANGED listeners
       ELSE /\ listeners' = [listeners EXCEPT
                               ![script.dropdownButtons[script.idx]] = "dropdown"]
            /\ script' = [script EXCEPT
                            !.idx = @ + 1,
                            !.binds = Append(@, script.dropdownButtons[script.idx])]
    /\ UNCHANGED <<doc, classList, hamburgerButton, allDropdownItems,
                   dropdownIcons, uncaught, handlers>>

NextLoad ==
    \/ ScriptL2
    \/ ScriptL3
    \/ ScriptL13
    \/ ScriptL14
    \/ ScriptL15
    \/ ScriptL16
    \/ Next

LoadSpec == InitLoad /\ [][NextLoad]_vars

\* ------------------------------------------------------------ the claims

Idle == frames = <<>>

DropdownButtons == {e \in Elements(doc) : listeners[e] = "dropdown"}

(* The panel and the icon the markup associates with dropdown button b.    *)
PanelOf(b) == querySelector(doc, doc[b].ariaControls)
IconOf(b) == querySelector(doc, replace(doc[b].ariaControls, "items", "expand"))

Panels == {e \in Elements(doc) : "dropdown__items" \in doc[e].class}
Icons == {e \in Elements(doc) : "dropdown__expand" \in doc[e].class}

PanelOpen(cl, p) == "dropdown__items--open" \in cl[p]
IconOpen(cl, i) == "dropdown__expand--open" \in cl[i]
OpenPanels(cl) == {p \in Panels : PanelOpen(cl, p)}
OpenIcons(cl) == {i \in Icons : IconOpen(cl, i)}

NavOpen(cl) == "site-nav__items--open" \in cl[querySelector(doc, SiteNavItemsId)]
HamOpen(cl) == "hamburger--open" \in cl[querySelector(doc, HamburgerButtonId)]

(* The click handled last, once its handler has ended.                     *)
Handled == Idle /\ log # <<>>
Last == log[Len(log)]
LastIsDropdown == Handled /\ listeners[Last.ev] = "dropdown"
LastIsHamburger == Handled /\ listeners[Last.ev] = "hamburger"

\* C1: whenever no handler is running, at most one dropdown panel carries
\* dropdown__items--open, whatever clicks were handled before.
C1_MutualExclusion == Idle => Cardinality(OpenPanels(classList)) <= 1

C1_Witness ==
    /\ Idle
    /\ Len(log) = 2
    /\ listeners[log[1].ev] = "dropdown"
    /\ listeners[log[2].ev] = "dropdown"
    /\ log[1].ev # log[2].ev
    /\ Cardinality(OpenPanels(classList)) = 1

\* C2: when the handler of a click on dropdown button b has ended, b's panel
\* and b's icon are open exactly if they were closed when the click was
\* taken, and every other panel and every other icon is closed.
C2_ClickEffect ==
    LastIsDropdown =>
        LET p == PanelOf(Last.ev)
            i == IconOf(Last.ev)
        IN  /\ PanelOpen(classList, p) = ~PanelOpen(Last.before, p)
            /\ IconOpen(classList, i) = ~IconOpen(Last.before, i)
            /\ \A q \in Panels \ {p} : ~PanelOpen(classList, q)
            /\ \A j \in Icons \ {i} : ~IconOpen(classList, j)

C2_Witness ==
    /\ LastIsDropdown
    /\ Len(log) = 1
    /\ OpenPanels(Last.before) = {}
    /\ OpenPanels(classList) = {PanelOf(Last.ev)}
    /\ OpenIcons(classList) = {IconOf(Last.ev)}

\* C3: a click on the button of a closed item, taken while another item was
\* open, ends with exactly the clicked item open.
C3_Switch ==
    (/\ LastIsDropdown
     /\ ~PanelOpen(Last.before, PanelOf(Last.ev))
     /\ OpenPanels(Last.before) # {})
        => /\ OpenPanels(classList) = {PanelOf(Last.ev)}
           /\ OpenIcons(classList) = {IconOf(Last.ev)}

C3_Witness ==
    /\ LastIsDropdown
    /\ ~PanelOpen(Last.before, PanelOf(Last.ev))
    /\ OpenPanels(Last.before) # {}
    /\ OpenIcons(Last.before) # {}
    /\ PanelOpen(classList, PanelOf(Last.ev))

\* C4: a click on the button of an item that was open ends with no item of
\* the group open.
C4_AccordionClose ==
    (LastIsDropdown /\ PanelOpen(Last.before, PanelOf(Last.ev)))
        => OpenPanels(classList) = {} /\ OpenIcons(classList) = {}

C4_Witness ==
    /\ LastIsDropdown
    /\ PanelOpen(Last.before, PanelOf(Last.ev))
    /\ IconOpen(Last.before, IconOf(Last.ev))
    /\ OpenPanels(classList) = {}

\* C5: after every hamburger click, the button carries hamburger--open
\* exactly if the nav panel carries site-nav__items--open.
C5_HamburgerLockstep ==
    LastIsHamburger => (HamOpen(classList) <=> NavOpen(classList))

C5_Witness ==
    /\ LastIsHamburger
    /\ Len(log) = 2
    /\ listeners[log[1].ev] = "dropdown"
    /\ HamOpen(classList)
    /\ NavOpen(classList)

\* C6: every hamburger click negates both the nav panel's and the button's
\* open token, whatever the dropdowns' state.
C6_HamburgerFlips ==
    LastIsHamburger =>
        /\ NavOpen(classList) = ~NavOpen(Last.before)
        /\ HamOpen(classList) = ~HamOpen(Last.before)

C6_Witness ==
    /\ LastIsHamburger
    /\ NavOpen(Last.before)
    /\ OpenPanels(Last.before) # {}
    /\ ~NavOpen(classList)
    /\ ~HamOpen(classList)

\* C7: two hamburger clicks handled one after the other, with no click
\* between them, leave both open tokens as the first click found them.
C7_HamburgerRoundTrip ==
    (/\ Handled
     /\ Len(log) = 2
     /\ listeners[log[1].ev] = "hamburger"
     /\ listeners[log[2].ev] = "hamburger")
        => /\ NavOpen(classList) = NavOpen(log[1].before)
           /\ HamOpen(classList) = HamOpen(log[1].before)

C7_Witness ==
    /\ Handled
    /\ Len(log) = 2
    /\ listeners[log[1].ev] = "hamburger"
    /\ listeners[log[2].ev] = "hamburger"
    /\ NavOpen(log[1].before)
    /\ ~NavOpen(log[2].before)
    /\ NavOpen(classList)

(* A hamburger handler has flipped the nav panel and not yet the button.   *)
HalfFlipped ==
    \E i \in 1..Len(frames) : frames[i].fn = "hamburger" /\ frames[i].pc = "L6"

\* C8: no click handler starts while a hamburger handler has flipped the
\* nav panel and not yet the button.
C8_HamburgerAtomic ==
    [][Len(frames') > Len(frames) => ~HalfFlipped]_vars

C8_Witness ==
    /\ HalfFlipped
    /\ NavOpen(classList) # HamOpen(classList)
    /\ Len(queue) = MaxQueue
    /\ \E k \in 1..Len(queue) : listeners[queue[k]] = "dropdown"
    /\ \E k \in 1..Len(queue) : listeners[queue[k]] = "hamburger"

\* C9: at most one handler is on the call stack at any time, and whenever
\* every click made has been handled the class lists are those that handling
\* the clicks one at a time, in the order they were made, leaves.
C9_NoInterleaving ==
    /\ Len(frames) <= 1
    /\ (Idle /\ queue = <<>>) => classList = serial

C9_Witness ==
    /\ Len(frames) = 1
    /\ frames[1].fn = "dropdown"
    /\ frames[1].pc = "L28"
    /\ OpenPanels(classList) # OpenPanels(Last.before)
    /\ Len(queue) = MaxQueue
    /\ queue[1] # queue[2]
    /\ classList # serial

(* The one handler running in this step is the handler of a click on b.    *)
Handling(b) == Len(frames) = 1 /\ frames[1].button = b

\* C10: a panel or an icon gets its open token only in a step of the handler
\* of a click on its own button, loses it only in a step of the handler of a
\* click on a dropdown button, and no class list changes while no handler
\* runs.
C10_ItemStateMachine ==
    [][/\ \A b \in DropdownButtons :
            /\ (~PanelOpen(classList, PanelOf(b)) /\ PanelOpen(classList', PanelOf(b)))
                   => Handling(b)
            /\ (~IconOpen(classList, IconOf(b)) /\ IconOpen(classList', IconOf(b)))
                   => Handling(b)
            /\ (PanelOpen(classList, PanelOf(b)) /\ ~PanelOpen(classList', PanelOf(b)))
                   => \E c \in DropdownButtons : Handling(c)
            /\ (IconOpen(classList, IconOf(b)) /\ ~IconOpen(classList', IconOf(b)))
                   => \E c \in DropdownButtons : Handling(c)
       /\ classList' # classList => frames # <<>>]_vars

C10_Witness ==
    /\ Len(frames) = 1
    /\ frames[1].fn = "dropdown"
    /\ frames[1].pc = "L25"
    /\ OpenPanels(Last.before) # {}
    /\ ~PanelOpen(Last.before, PanelOf(frames[1].button))
    /\ OpenPanels(classList) = {}

\* C11: a hamburger click leaves the open token of every dropdown panel and
\* icon as it found it, and a dropdown click leaves the nav panel's and the
\* hamburger button's open tokens as it found them.
C11_Frame ==
    /\ LastIsHamburger =>
           /\ OpenPanels(classList) = OpenPanels(Last.before)
           /\ OpenIcons(classList) = OpenIcons(Last.before)
    /\ LastIsDropdown =>
           /\ NavOpen(classList) = NavOpen(Last.before)
           /\ HamOpen(classList) = HamOpen(Last.before)

C11_Witness ==
    /\ Idle
    /\ Len(log) = 2
    /\ listeners[log[1].ev] = "dropdown"
    /\ NavOpen(log[1].before)
    /\ listeners[log[2].ev] = "hamburger"
    /\ OpenPanels(log[2].before) # {}
    /\ OpenIcons(classList) # {}
    /\ ~NavOpen(classList)

(* What the document holds.                                                *)
HasHamburgerButton == querySelector(doc, HamburgerButtonId) # NULL
HasNavPanel == querySelector(doc, SiteNavItemsId) # NULL

(* initialiseHamburger() has not returned.                                 *)
HamburgerNotInitialised == script.pc \in {"L2", "L3", "aborted"}

InitFailure == [fn |-> "initialiseHamburger", line |-> "L3"]

\* C12 as stated: with the hamburger button or the nav panel missing from
\* the document, initialiseHamburger() never returns normally.
C12_AsStated ==
    (~HasHamburgerButton \/ ~HasNavPanel) => HamburgerNotInitialised

\* C12, amended: with the hamburger button missing, initialiseHamburger()
\* fails at line 3, where it binds the handler, and never returns; that is
\* its only failure.  With the button present and only the nav panel
\* missing it does not fail: every hamburger click fails instead, at line 5.
C12_InitFailure ==
    /\ ~HasHamburgerButton => HamburgerNotInitialised
    /\ script.pc = "aborted" => ~HasHamburgerButton /\ InitFailure \in uncaught
    /\ HasHamburgerButton => script.pc # "aborted" /\ InitFailure \notin uncaught
    /\ (HasHamburgerButton /\ ~HasNavPanel /\ Handled
            /\ listeners[Last.ev] = "hamburger")
           => [fn |-> "hamburger", line |-> "L5"] \in uncaught

C12_Witness ==
    /\ HasHamburgerButton
    /\ ~HasNavPanel
    /\ script.pc = "done"
    /\ Handled
    /\ listeners[Last.ev] = "hamburger"
    /\ uncaught = {[fn |-> "hamburger", line |-> "L5"]}

(* The handler of a click on a dropdown button whose icon does not resolve *)
(* has ended.                                                              *)
LastIconUnresolved ==
    /\ Handled
    /\ listeners[Last.ev] = "dropdown"
    /\ IconOf(Last.ev) = NULL

\* C13 as stated: a click on a button whose icon does not resolve changes
\* the open token of no icon.
C13_AsStated ==
    LastIconUnresolved => OpenIcons(classList) = OpenIcons(Last.before)

\* C13, amended: a click on a button whose icon does not resolve opens no
\* icon and fails at line 33, but the loop of lines 28 to 32 has run before:
\* every icon that was open is closed.
C13_IconUnresolved ==
    LastIconUnresolved =>
        /\ OpenIcons(classList) = {}
        /\ [fn |-> "dropdown", line |-> "L33"] \in uncaught

C13_Witness ==
    /\ LastIconUnresolved
    /\ OpenIcons(Last.before) # {}
    /\ OpenIcons(classList) = {}

(* No statement after a failed access has run: a handler past line 25 has  *)
(* its panel, a handler past line 5 has the nav panel, the script past     *)
(* line 3 has the hamburger button.                                        *)
NothingRunsAfterFailure ==
    /\ \A i \in 1..Len(frames) :
          /\ frames[i].pc \in {"L27", "L28", "L33"} => frames[i].v.dropdownItems # NULL
          /\ frames[i].pc = "L6" => frames[i].v.siteNavItems # NULL
    /\ script.pc \in {"L13", "L14", "L15", "L16", "done"} => hamburgerButton # NULL
    /\ (Handled /\ listeners[Last.ev] = "dropdown" /\ PanelOf(Last.ev) = NULL)
           => /\ [fn |-> "dropdown", line |-> "L25"] \in uncaught
              /\ OpenIcons(classList) = OpenIcons(Last.before)
    /\ (Handled /\ listeners[Last.ev] = "hamburger" /\ ~HasNavPanel)
           => /\ [fn |-> "hamburger", line |-> "L5"] \in uncaught
              /\ HamOpen(classList) = HamOpen(Last.before)

(* The step that throws changes no class list and ends what threw; what    *)
(* was thrown stays uncaught, and an aborted script stays aborted.         *)
FailsAtTheAccess ==
    /\ uncaught \subseteq uncaught'
    /\ uncaught' # uncaught =>
           /\ classList' = classList
           /\ Len(frames') < Len(frames) \/ script'.pc = "aborted"
    /\ script.pc = "aborted" => script' = script

\* C14: nothing catches a failed access: the step that reads a property of
\* an element that did not resolve ends its handler, or the page script, on
\* the spot, and no later statement of it runs.
C14_Uncaught == []NothingRunsAfterFailure /\ [][FailsAtTheAccess]_vars

C14_Witness ==
    /\ Handled
    /\ listeners[Last.ev] = "dropdown"
    /\ PanelOf(Last.ev) = NULL
    /\ OpenPanels(Last.before) # {}
    /\ OpenPanels(classList) = {}
    /\ OpenIcons(classList) # {}
    /\ uncaught = {[fn |-> "dropdown", line |-> "L25"]}

(* The elements bearing class dropdown__button, and how often              *)
(* addEventListener was called on element e.                               *)
TriggerButtons == {e \in Elements(doc) : "dropdown__button" \in doc[e].class}
BindCount(e) == Cardinality({k \in 1..Len(script.binds) : script.binds[k] = e})

\* C15: once the page script has ended normally, addEventListener has been
\* called exactly once on every element of class dropdown__button, each of
\* them has the dropdown handler as its click listener, and no other element
\* has it.
C15_OneHandlerPerTrigger ==
    script.pc = "done" =>
        \A e \in Elements(doc) :
            /\ e \in TriggerButtons => BindCount(e) = 1
            /\ listeners[e] = "dropdown" <=> e \in TriggerButtons
            /\ e \notin TriggerButtons \cup {hamburgerButton} => BindCount(e) = 0

C15_Witness ==
    /\ script.pc = "done"
    /\ Cardinality(TriggerButtons) = LoadItems
    /\ Len(script.binds) = LoadItems + 1
    /\ Handled
    /\ listeners[Last.ev] = "dropdown"
    /\ \A e \in TriggerButtons : Last.ev >= e
    /\ PanelOf(Last.ev) # NULL
    /\ PanelOpen(classList, PanelOf(Last.ev))

OpenTokens == {"hamburger--open", "site-nav__items--open",
               "dropdown__items--open", "dropdown__expand--open"}

\* C16: no step of the page script or of a handler adds or removes an
\* element or changes an id or an aria-controls, and the only class tokens a
\* step adds or removes are the four open tokens.
C16_OnlyOpenTokens ==
    [][/\ doc' = doc
       /\ DOMAIN classList' = DOMAIN classList
       /\ \A e \in DOMAIN classList :
              classList'[e] \ OpenTokens = classList[e] \ OpenTokens]_vars

C16_Witness ==
    /\ Handled
    /\ Len(log) = 2
    /\ listeners[log[1].ev] = "hamburger"
    /\ listeners[log[2].ev] = "dropdown"
    /\ OpenPanels(log[2].before) # {}
    /\ OpenPanels(classList) # {}
    /\ OpenPanels(classList) # OpenPanels(log[2].before)
    /\ \A e \in Elements(doc) : classList[e] \ OpenTokens = doc[e].class

(* One dropdown handler is running; its button, and the line it is at.     *)
DropdownRunning == Len(frames) = 1 /\ frames[1].fn = "dropdown"
Clicked == frames[1].button
Line == frames[1].pc

(* The target panel has been flipped by the running handler (line 25).     *)
PanelFlipped == Line \in {"L27", "L28", "L33"}

\* C17 as stated: when the target panel has been flipped, every other icon
\* has already been closed.
C17_AsStated ==
    (DropdownRunning /\ PanelFlipped)
        => OpenIcons(classList) \subseteq {IconOf(Clicked)}

\* C17, amended: the steps run in the order 2, 4, 3, 5.  Every other panel
\* is closed before the target panel is flipped; no icon is touched until
\* the target panel has been flipped; every other icon is closed, and the
\* target panel flipped, before the target icon is flipped.
C17_StepOrder ==
    DropdownRunning =>
        /\ Line = "L25" =>
               /\ OpenPanels(classList) \subseteq {PanelOf(Clicked)}
               /\ PanelOpen(classList, PanelOf(Clicked))
                      = PanelOpen(Last.before, PanelOf(Clicked))
        /\ Line \in {"L18", "L19", "L20", "L25", "L27"} =>
               OpenIcons(classList) = OpenIcons(Last.before)
        /\ PanelFlipped =>
               PanelOpen(classList, PanelOf(Clicked))
                   = ~PanelOpen(Last.before, PanelOf(Clicked))
        /\ Line = "L33" =>
               /\ OpenIcons(classList) \subseteq {IconOf(Clicked)}
               /\ IconOpen(classList, IconOf(Clicked))
                      = IconOpen(Last.before, IconOf(Clicked))

C17_Witness ==
    /\ DropdownRunning
    /\ Line = "L27"
    /\ OpenPanels(classList) = {PanelOf(Clicked)}
    /\ OpenIcons(classList) # {}
    /\ IconOf(Clicked) \notin OpenIcons(classList)

(* The class lists with the panel and the icon of button b closed.         *)
PanelClosed(cl, b) == [cl EXCEPT ![PanelOf(b)] = @ \ {"dropdown__items--open"}]
ItemClosed(cl, b) ==
    [PanelClosed(cl, b) EXCEPT ![IconOf(b)] = @ \ {"dropdown__expand--open"}]

\* C18: in the handler of a click on an item that was open, the two closing
\* loops change no class list: up to line 25 the class lists are as the
\* click found them, from there to line 33 they differ by the target panel's
\* open token alone, and at the end by the target panel's and the target
\* icon's open tokens alone.
C18_SiblingLoopsNoOp ==
    /\ (DropdownRunning /\ PanelOpen(Last.before, PanelOf(Clicked))) =>
           /\ ~PanelFlipped => classList = Last.before
           /\ PanelFlipped => classList = PanelClosed(Last.before, Clicked)
    /\ (LastIsDropdown /\ PanelOpen(Last.before, PanelOf(Last.ev))) =>
           classList = ItemClosed(Last.before, Last.ev)

C18_Witness ==
    /\ DropdownRunning
    /\ PanelOpen(Last.before, PanelOf(Clicked))
    /\ IconOpen(Last.before, IconOf(Clicked))
    /\ Line = "L33"
    /\ IconOpen(classList, IconOf(Clicked))
    /\ OpenPanels(classList) = {}

\* C19 as stated: the page script resolves the nav panel once while it
\* loads, and no hamburger click resolves it.
C19_AsStated ==
    /\ script.pc = "done" => lookups.load = 1
    /\ lookups.click = 0

\* C19, amended: the page script never resolves the nav panel; every
\* hamburger click resolves it, once, as the first statement of its handler
\* (line 4), which starts without a reference to it.
C19_PanelResolvedPerClick ==
    /\ lookups.load = 0
    /\ \A i \in 1..Len(frames) :
          /\ (frames[i].fn = "hamburger" /\ frames[i].pc = "L4")
                 => lookups.click = 0 /\ frames[i].v.siteNavItems = NULL
          /\ (frames[i].fn = "hamburger" /\ frames[i].pc \in {"L5", "L6"})
                 => lookups.click = 1
    /\ (Handled /\ listeners[Last.ev] = "hamburger") => lookups.click = 1

C19_Witness ==
    /\ script.pc = "done"
    /\ HasNavPanel
    /\ Handled
    /\ Len(log) = 2
    /\ listeners[log[1].ev] = "hamburger"
    /\ listeners[log[2].ev] = "hamburger"
    /\ lookups = [load |-> 0, click |-> 1]

\* C20 as stated: when the page script has ended on a document without the
\* hamburger button, every element of class dropdown__button has the
\* dropdown handler as its click listener.
C20_AsStated ==
    (ScriptEnded /\ ~HasHamburgerButton)
        => \A e \in TriggerButtons : listeners[e] = "dropdown"

\* ------------------------------------------- ids that hold "items" twice

(* The page after its script has run to the end on document d, the         *)
(* elements carrying the class tokens cl, and no click made yet.           *)
Loaded(d, cl) ==
    /\ doc = d
    /\ classList = cl
    /\ hamburgerButton = initialiseHamburger(d)
    /\ allDropdownItems = querySelectorAll(d, cl, "dropdown__items")
    /\ dropdownIcons = querySelectorAll(d, cl, "dropdown__expand")
    /\ listeners = boundListeners(d, cl)
    /\ script = scriptDone(d, cl)
    /\ queue = <<>>
    /\ frames = <<>>
    /\ uncaught = {}
    /\ log = <<>>
    /\ serial = cl
    /\ lookups = [load |-> 0, click |-> 0]
    /\ trail = NoTrail

(* A dropdown item whose panel id is "items-dropdown-items".  Besides the  *)
(* icon "expand-dropdown-items" the document holds icons with the ids that *)
(* replacing every "items", or the last one, would give.                   *)
RepeatedControls == <<"items", "-dropdown-", "items">>

RepeatedItemMarkup ==
    << [id |-> <<"items", "-dropdown-", "button">>,
        class |-> {"dropdown__button"}, ariaControls |-> RepeatedControls],
       [id |-> <<"expand", "-dropdown-", "expand">>,
        class |-> {"dropdown__expand"}, ariaControls |-> <<>>],
       [id |-> <<"items", "-dropdown-", "expand">>,
        class |-> {"dropdown__expand"}, ariaControls |-> <<>>],
       [id |-> <<"expand", "-dropdown-", "items">>,
        class |-> {"dropdown__expand"}, ariaControls |-> <<>>],
       [id |-> RepeatedControls,
        class |-> {"dropdown__items"}, ariaControls |-> <<>>] >>

RepeatedMarkup == HeaderMarkup \o ItemMarkup(1) \o RepeatedItemMarkup

InitIds == Loaded(RepeatedMarkup, [e \in Elements(RepeatedMarkup) |->
                                      RepeatedMarkup[e].class])

IdSpec == InitIds /\ [][Next]_vars

(* id is controls with its first "items" replaced by "expand" and nothing  *)
(* else changed.                                                           *)
FirstReplaced(id, controls) ==
    \E k \in 1..Len(controls) :
        /\ controls[k] = "items"
        /\ \A j \in 1..(k - 1) : controls[j] # "items"
        /\ id = [controls EXCEPT ![k] = "expand"]

IconResolved(i) == frames[i].fn = "dropdown" /\ frames[i].pc \in {"L28", "L33"}

\* C21: the icon a dropdown handler holds from line 27 on, and the icon whose
\* open token the click has flipped when the handler has ended, is the element
\* whose id is the button's aria-controls value with the first "items", and
\* only the first, replaced by "expand"; no other icon is left open.
C21_IconResolution ==
    /\ \A i \in 1..Len(frames) :
          IconResolved(i)
              => /\ frames[i].v.dropdownIcon # NULL
                 /\ FirstReplaced(doc[frames[i].v.dropdownIcon].id,
                                  getAttribute(doc, frames[i].button))
    /\ LastIsDropdown
          => \A e \in Icons :
                IF FirstReplaced(doc[e].id, getAttribute(doc, Last.ev))
                THEN IconOpen(classList, e) # IconOpen(Last.before, e)
                ELSE ~IconOpen(classList, e)

C21_Witness ==
    /\ LastIsDropdown
    /\ getAttribute(doc, Last.ev) = RepeatedControls
    /\ OpenIcons(classList)
          = {querySelector(doc, <<"expand", "-dropdown-", "items">>)}

\* ------------------------------------------------------------- termination

(* The next statement of a running handler.                                *)
HandlerStep ==
    \E i \in 1..Len(frames) :
        \/ HamburgerL4(i) \/ HamburgerL5(i) \/ HamburgerL6(i)
        \/ DropdownL18(i) \/ DropdownL19(i) \/ DropdownL20(i)
        \/ DropdownL25(i) \/ DropdownL27(i) \/ DropdownL28(i)
        \/ DropdownL33(i)

(* The handlers are synchronous and wait for nothing, so a handler on the  *)
(* call stack executes its next statement; and the event loop takes the    *)
(* oldest waiting click once the call stack is empty.  Nothing obliges the *)
(* user to click.                                                          *)
InitFair == Loaded(Markup(FairItems), [e \in Elements(Markup(FairItems)) |->
                                          Markup(FairItems)[e].class])

FairSpec ==
    InitFair /\ [][Next]_vars /\ WF_vars(HandlerStep) /\ WF_vars(Dispatch)

(* The statements a dropdown handler has left at most: per forEach one     *)
(* turn per list element and the exit, and the five other lines.           *)
StepsLeft(f) ==
    IF f.fn = "hamburger"
    THEN (IF f.pc = "L4" THEN 3 ELSE IF f.pc = "L5" THEN 2 ELSE 1)
    ELSE LET panels == Len(allDropdownItems) + 1
             icons == Len(dropdownIcons) + 1
         IN  IF f.pc = "L18" THEN panels + icons + 5
             ELSE IF f.pc = "L19" THEN panels + icons + 4
             ELSE IF f.pc = "L20" THEN (panels - f.v.idx + 1) + icons + 3
             ELSE IF f.pc = "L25" THEN icons + 3
             ELSE IF f.pc = "L27" THEN icons + 2
             ELSE IF f.pc = "L28" THEN (icons - f.v.idx + 1) + 1
             ELSE 1

\* C22: a running handler always ends (each of its statements leaves fewer
\* statements to run, or ends it), and whenever a click waits on the event
\* queue and no handler runs, a handler is started; so every click queued is
\* handled to completion.
C22_Termination ==
    /\ (frames # <<>>) ~> (frames = <<>>)
    /\ (frames = <<>> /\ queue # <<>>) ~> (frames # <<>>)
    /\ (Len(queue) = MaxQueue) ~> (Len(queue) < MaxQueue)
    /\ [][\A i \in 1..Len(frames) :
            (i \in 1..Len(frames') /\ frames'[i] # frames[i])
                => StepsLeft(frames'[i]) < StepsLeft(frames[i])]_vars

C22_Witness ==
    /\ Len(queue) = MaxQueue
    /\ DropdownRunning
    /\ Line = "L28"
    /\ frames[1].v.idx = Len(dropdownIcons) + 1
    /\ Len(log) = 2

\* ----------------------------------------------------- panel and icon

\* C23: on the well-formed document with every item closed at load, whenever
\* no handler runs each item's panel carries dropdown__items--open exactly
\* when its icon carries dropdown__expand--open.
C23_PanelIconLockstep ==
    Idle => \A b \in DropdownButtons :
                PanelOpen(classList, PanelOf(b)) <=> IconOpen(classList, IconOf(b))

C23_Witness ==
    /\ LastIsDropdown
    /\ Len(log) = 2
    /\ listeners[log[1].ev] = "dropdown"
    /\ log[1].ev # Last.ev
    /\ PanelOpen(Last.before, PanelOf(log[1].ev))
    /\ PanelOpen(classList, PanelOf(Last.ev))
    /\ IconOpen(classList, IconOf(Last.ev))

\* C24: in every state, also between two statements of a dropdown handler, at
\* most one panel carries dropdown__items--open and at most one icon carries
\* dropdown__expand--open.
C24_ExclusionAtEveryStep ==
    /\ Cardinality(OpenPanels(classList)) <= 1
    /\ Cardinality(OpenIcons(classList)) <= 1

C24_Witness ==
    /\ DropdownRunning
    /\ Line = "L25"
    /\ PanelOf(Clicked) \notin OpenPanels(Last.before)
    /\ OpenPanels(Last.before) # {}
    /\ OpenPanels(classList) = {}
    /\ OpenIcons(classList) = OpenIcons(Last.before)
    /\ OpenIcons(classList) # {}

\* ------------------------------------------- any items open at the start

(* The class tokens when the panels P and the icons I of document d carry  *)
(* their open token in the markup.                                         *)
Opened(d, P, I) ==
    [e \in Elements(d) |->
        d[e].class \cup (IF e \in P THEN {"dropdown__items--open"} ELSE {})
                   \cup (IF e \in I THEN {"dropdown__expand--open"} ELSE {})]

PanelsIn(d) == {e \in Elements(d) : "dropdown__items" \in d[e].class}
IconsIn(d) == {e \in Elements(d) : "dropdown__expand" \in d[e].class}

(* The well-formed document, loaded with any panels and any icons open.    *)
InitAny ==
    \E P \in SUBSET PanelsIn(Markup(AnyItems)),
       I \in SUBSET IconsIn(Markup(AnyItems)) :
        Loaded(Markup(AnyItems), Opened(Markup(AnyItems), P, I))

AnySpec == InitAny /\ [][Next]_vars

AtMostOneOpen ==
    /\ Cardinality(OpenPanels(classList)) <= 1
    /\ Cardinality(OpenIcons(classList)) <= 1

\* C25: whatever panels and icons are open at load, when the handler of a
\* click on a dropdown button has ended at most one panel and at most one
\* icon is open, and once that is so it stays so in every later state.
C25_SelfStabilisation ==
    /\ [](LastIsDropdown => AtMostOneOpen)
    /\ [][AtMostOneOpen => AtMostOneOpen']_vars

C25_Witness ==
    /\ LastIsDropdown
    /\ Len(log) = 1
    /\ Cardinality(OpenPanels(Last.before)) >= 2
    /\ Cardinality(OpenIcons(Last.before)) = 1
    /\ Cardinality(OpenPanels(classList)) = 0
    /\ Cardinality(OpenIcons(classList)) = 1

\* ---------------------------------------------------------- click history

\* C26: once a dropdown button has been clicked, whenever no handler runs no
\* item but the one clicked last is open, and that item's panel and icon are
\* open exactly when the clicks on its button since the last click on
\* another dropdown button are odd in number.
C26_FunctionOfHistory ==
    (Idle /\ trail.last # NULL)
        => /\ OpenPanels(classList) \subseteq {PanelOf(trail.last)}
           /\ OpenIcons(classList) \subseteq {IconOf(trail.last)}
           /\ PanelOpen(classList, PanelOf(trail.last)) <=> trail.odd
           /\ IconOpen(classList, IconOf(trail.last)) <=> trail.odd

C26_Witness ==
    /\ Idle
    /\ trail.odd
    /\ Len(log) = 2
    /\ log[1].ev = trail.last
    /\ log[2].ev = trail.last
    /\ PanelOpen(log[1].before, PanelOf(trail.last))
    /\ HamOpen(classList)

\* --------------------------------------------------------------- refinement

GroupTokens == {"dropdown__items--open", "dropdown__expand--open"}

(* The open tokens the panels and icons carry.                             *)
GroupState(cl) == [e \in Panels \cup Icons |-> cl[e] \cap GroupTokens]

(* The group state that stands for the abstract value c: the item of       *)
(* button c open, or no item open when c is NULL.                          *)
ImageOf(c) ==
    [e \in Panels \cup Icons |->
        IF c # NULL /\ e = PanelOf(c) THEN {"dropdown__items--open"}
        ELSE IF c # NULL /\ e = IconOf(c) THEN {"dropdown__expand--open"}
        ELSE {}]

Abstract == DropdownButtons \cup {NULL}

IsImage(cl) == \E c \in Abstract : GroupState(cl) = ImageOf(c)

Current(cl) == CHOOSE c \in Abstract : GroupState(cl) = ImageOf(c)

(* The abstract variable: what the class lists stand for, and while a      *)
(* handler runs what they stood for when its click was taken.              *)
current == IF Idle THEN Current(classList) ELSE Current(Last.before)

(* The abstract step of a click on button b.                               *)
AbstractClick(b) == current' = IF current = b THEN NULL ELSE b

(* A step that does not end a handler leaves unchanged what current is     *)
(* read from: the class lists while no handler runs, and the class lists   *)
(* the click taken last found while one runs.                              *)
CurrentUntouched ==
    IF frames = <<>> /\ frames' = <<>> THEN classList' = classList
    ELSE IF frames = <<>> THEN log'[Len(log')].before = classList
    ELSE log' = log

\* C27: whenever no handler runs the open tokens of the panels and icons are
\* the image of one value of current (an item, or none); a step that ends the
\* handler of a click on dropdown button b is the abstract step
\* current' = IF current = b THEN none ELSE b, the step that ends a hamburger
\* handler leaves current unchanged, and so does every other step.
C27_Refinement ==
    /\ [](Idle => IsImage(classList))
    /\ [][IF frames # <<>> /\ frames' = <<>>
          THEN IF frames[1].fn = "dropdown"
               THEN AbstractClick(frames[1].button)
               ELSE current' = current
          ELSE CurrentUntouched]_vars

C27_Witness ==
    /\ LastIsDropdown
    /\ Len(log) = 2
    /\ log[1].ev = Last.ev
    /\ Current(log[1].before) \notin {NULL, Last.ev}
    /\ Current(Last.before) = Last.ev
    /\ current = NULL

\* ------------------------------------------------- what a failed click did

LastPanelUnresolved ==
    /\ Handled
    /\ listeners[Last.ev] = "dropdown"
    /\ PanelOf(Last.ev) = NULL

\* C28: when the handler of a click on a button whose aria-controls names no
\* element has ended, it has failed at line 25, no panel is open, and every
\* icon carries its open token exactly when it did before the click.
C28_PanelUnresolved ==
    LastPanelUnresolved
        => /\ [fn |-> "dropdown", line |-> "L25"] \in uncaught
           /\ OpenPanels(classList) = {}
           /\ OpenIcons(classList) = OpenIcons(Last.before)

C28_Witness ==
    /\ LastPanelUnresolved
    /\ \E b \in DropdownButtons :
          /\ PanelOf(b) # NULL
          /\ IconOf(b) # NULL
          /\ PanelOpen(Last.before, PanelOf(b))
          /\ IconOpen(Last.before, IconOf(b))
          /\ ~PanelOpen(classList, PanelOf(b))
          /\ IconOpen(classList, IconOf(b))

LastOnlyIconUnresolved == LastIconUnresolved /\ PanelOf(Last.ev) # NULL

\* C29: when the handler of a click on a button whose panel resolves and
\* whose icon does not has ended, it has failed at line 33, the target panel
\* has the opposite open state to the one the click found, and no other panel
\* is open.
C29_PanelSideApplied ==
    LastOnlyIconUnresolved
        => /\ [fn |-> "dropdown", line |-> "L33"] \in uncaught
           /\ PanelOpen(classList, PanelOf(Last.ev))
                 # PanelOpen(Last.before, PanelOf(Last.ev))
           /\ OpenPanels(classList) \subseteq {PanelOf(Last.ev)}

C29_Witness ==
    /\ LastOnlyIconUnresolved
    /\ OpenPanels(Last.before) # {}
    /\ PanelOf(Last.ev) \notin OpenPanels(Last.before)
    /\ OpenPanels(classList) = {PanelOf(Last.ev)}

LastNavUnresolved ==
    /\ Handled
    /\ listeners[Last.ev] = "hamburger"
    /\ ~HasNavPanel

\* C30: when the handler of a hamburger click has ended on a document without
\* the nav panel, it has failed at line 5, every class list is as the click
\* found it, and neither hamburger--open nor site-nav__items--open is on any
\* element.
C30_HamburgerFailure ==
    LastNavUnresolved
        => /\ [fn |-> "hamburger", line |-> "L5"] \in uncaught
           /\ classList = Last.before
           /\ \A e \in Elements(doc) :
                 classList[e] \cap {"hamburger--open", "site-nav__items--open"}
                    = {}

C30_Witness ==
    /\ LastNavUnresolved
    /\ Len(log) = 2
    /\ listeners[log[1].ev] = "hamburger"
    /\ OpenPanels(classList) # {}

====
